---- MODULE Spec2Model ----
(***************************************************************************)
(* Model of setup_ubuntu.py: the sequential step runner (main, _run_step,  *)
(* _run_cmd, _print_result, _print_summary).                               *)
(*                                                                         *)
(* A text is a sequence of tokens; the tokens " " and "\n" are whitespace. *)
(* The empty sequence is the empty string (falsy in Python).               *)
(***************************************************************************)
EXTENDS Integers, Sequences, FiniteSets, TLC

(* ------------------------------ bounds --------------------------------- *)

\* Longest step list STEPS of the runs explored.
MaxSteps == 3

\* Longest "commands" list of a step descriptor.
MaxCmds == 2

(* --------------------------- texts (str) -------------------------------- *)

Whitespace == {" ", "\n"}

EmptyText == << >>

RECURSIVE LStrip(_)
LStrip(t) ==
    IF t = << >> THEN << >>
    ELSE IF Head(t) \in Whitespace THEN LStrip(Tail(t)) ELSE t

RECURSIVE RStrip(_)
RStrip(t) ==
    IF t = << >> THEN << >>
    ELSE IF t[Len(t)] \in Whitespace THEN RStrip(SubSeq(t, 1, Len(t) - 1)) ELSE t

\* str.strip()
Strip(t) == RStrip(LStrip(t))

\* Python's  a or b  on strings: a unless it is empty.
OrText(a, b) == IF a # << >> THEN a ELSE b

\* What a command may write to stderr / stdout.
StderrTexts == { << >>, <<" ">>, <<"E">> }

StdoutTexts == { << >>, <<"O", "\n">> }

\* The exceptions (instances of subclasses of Exception) an action may
\* raise: Exception() and Exception("boom").
Exceptions == { [args |-> << >>], [args |-> << <<"boom">> >>] }

\* The args of an event that carries no exception.
NoExc == [args |-> << >>]

\* Faulty variant: the text of the error dropped
strDropsText(e) == EmptyText

\* str(e): "" for an exception without arguments, else its argument.
str(e) == IF Len(e.args) = 0 THEN EmptyText ELSE e.args[1]

SkippedMessage == <<"condition", " ", "matched">>

RunFalseMessage == <<"run()", " ", "returned", " ", "False">>

ExitCodeMessage == <<"exit", " ", "code", " ", "non-zero">>

(* ------------------------- step descriptors ----------------------------- *)

StepName(j) == <<"step", j>>

\* commands lists: <<>>, <<1>>, <<1, 2>>, ... (a command is named by its position)
CommandLists == { [k \in 1..n |-> k] : n \in 0..MaxCmds }

\* The keys of a step dict other than "name":
\*   optional    step.get("optional", False)
\*   skip_if     TRUE iff step.get("skip_if") is a (truthy) callable
\*   run         TRUE iff the key "run" is in the dict
\*   commands    step.get("commands", [])
\*   show_output step.get("show_output", False)
StepShapes ==
    [ optional : BOOLEAN, skip_if : BOOLEAN, run : BOOLEAN,
      commands : CommandLists, show_output : BOOLEAN ]

MkStep(j, s) ==
    [ name |-> StepName(j), optional |-> s.optional, skip_if |-> s.skip_if,
      run |-> s.run, commands |-> s.commands, show_output |-> s.show_output ]

\* The two execution modes in their plainest form, behind a skip predicate
\* (which may return false): a custom action and no commands, or one
\* captured command; required or optional.
ShortShapes ==
    { s \in StepShapes :
        /\ s.skip_if
        /\ ~s.show_output
        /\ s.commands = (IF s.run THEN << >> ELSE <<1>>) }

\* The step list made of the shapes f[1], ..., f[n].
MkSteps(n, f) == [ j \in 1..n |-> MkStep(j, f[j]) ]

(* ------------------------------ Result ---------------------------------- *)

\* Faulty variant: total is the number of steps processed so far
ResultTotalProcessed(name, index, tot, status, message, optional) ==
    [ step_name |-> name, step_index |-> index, total |-> index,
      status |-> status, message |-> message, optional |-> optional ]

\* dataclass Result; message defaults to "" and optional to False.
Result(name, index, tot, status, message, optional) ==
    [ step_name |-> name, step_index |-> index, total |-> tot,
      status |-> status, message |-> message, optional |-> optional ]

\* Value of the variable r of main before _run_step has returned anything.
NoResult == Result(<< >>, 0, 0, "unset", << >>, FALSE)

(* ------------------------------ state ----------------------------------- *)

VARIABLES
    STEPS,        \* the step list (constant during a run)
    pc,           \* position of the single thread of control
    i,            \* loop index of main (1-based); 0 before the first step
    results,      \* main's results list
    r,            \* the Result last returned by _run_step
    c,            \* position of _run_step's  for cmd in commands
    ok,           \* _run_step local: success flag of the last _run_cmd
    err,          \* _run_step local: diagnostic text of the last _run_cmd
    cmd_call,     \* the last call of _run_cmd by the running step: arguments and return value
    trace,        \* everything printed and every external call, in order
    summaries,    \* one record per call of _print_summary
    exit_status   \* process exit status; NotExited while running

vars == << STEPS, pc, i, results, r, c, ok, err, cmd_call, trace, summaries, exit_status >>

NotExited == 0 - 1

\* cmd_call while the running step has not called _run_cmd.
NoCall == [ called |-> FALSE, rc |-> 0, stderr |-> << >>, stdout |-> << >>,
            capture |-> FALSE, success |-> FALSE, text |-> << >> ]

\* _run_cmd(cmd, env, capture) ran a command that exited with rc, having
\* written stderr and stdout, and returned ret.
CmdCall(rc, stderr, stdout, capture, ret) ==
    [ called |-> TRUE, rc |-> rc, stderr |-> stderr, stdout |-> stdout,
      capture |-> capture, success |-> ret[1], text |-> ret[2] ]

total == Len(STEPS)

step == STEPS[i]

(* ------------------------------ output ---------------------------------- *)

\* One entry of trace: a line printed ("starting", "echo", "result", "abort",
\* "summary", "done") or an external call made ("skip_if", "run", "exec").
\* A call carries its outcome: "true", "false" or "raise" for a predicate or
\* an action (with the exception raised), "0", "1" or "raise" for a command.
Call(kind, s, k, outcome, e) == [ ev |-> kind, step |-> s, cmd |-> k, out |-> outcome, exc |-> e ]

Ev(kind, s, k) == Call(kind, s, k, "", NoExc)

\* sum(1 for r in results if r.status == status)
CountStatus(rs, status) == Cardinality({ j \in 1..Len(rs) : rs[j].status = status })

\* sum(1 for r in results if r.status == "failed" and r.optional)
CountFailedOptional(rs) ==
    Cardinality({ j \in 1..Len(rs) : rs[j].status = "failed" /\ rs[j].optional })

\* Faulty variant: skipped steps counted as performed as well
print_summaryOkCountsSkipped(rs, tot) ==
    LET n_ok == CountStatus(rs, "ok") + CountStatus(rs, "skipped")
        n_skipped == CountStatus(rs, "skipped")
        n_failed == CountStatus(rs, "failed")
        n_failed_optional == CountFailedOptional(rs)
        n_failed_required == n_failed - n_failed_optional
    IN  [ ok |-> n_ok, skipped |-> n_skipped, failed |-> n_failed,
          failed_optional |-> n_failed_optional,
          failed_required |-> n_failed_required,
          total |-> tot,
          required_line |-> (n_failed_required # 0),
          results |-> rs ]

\* _print_summary: the counts it computes, and whether the
\* "Failed (required)" line is printed.
print_summary(rs, tot) ==
    LET n_ok == CountStatus(rs, "ok")
        n_skipped == CountStatus(rs, "skipped")
        n_failed == CountStatus(rs, "failed")
        n_failed_optional == CountFailedOptional(rs)
        n_failed_required == n_failed - n_failed_optional
    IN  [ ok |-> n_ok, skipped |-> n_skipped, failed |-> n_failed,
          failed_optional |-> n_failed_optional,
          failed_required |-> n_failed_required,
          total |-> tot,
          required_line |-> (n_failed_required # 0),
          results |-> rs ]

(* ------------------------------ _run_cmd -------------------------------- *)

\* Faulty variant: stdout preferred to stderr
run_cmdStdoutFirst(rc, stderr, stdout, capture) ==
    IF capture
    THEN << rc = 0, OrText(Strip(stdout), Strip(stderr)) >>
    ELSE << rc = 0, EmptyText >>

\* _run_cmd: <<success, diagnostic text>> of a command that exited with
\* returncode rc having written stderr and stdout.
run_cmd(rc, stderr, stdout, capture) ==
    IF capture
    THEN << rc = 0, OrText(Strip(stderr), Strip(stdout)) >>
    ELSE << rc = 0, EmptyText >>

ReturnCodes == {0, 1}

(* ------------------------------- Init ----------------------------------- *)

InitWith(maxSteps, shapes) ==
    /\ \E n \in 0..maxSteps : \E f \in [1..n -> shapes] : STEPS = MkSteps(n, f)
    /\ pc = "loop"
    /\ i = 0
    /\ results = << >>
    /\ r = NoResult
    /\ c = 0
    /\ ok = TRUE
    /\ err = EmptyText
    /\ cmd_call = NoCall
    /\ trace = << >>
    /\ summaries = << >>
    /\ exit_status = NotExited

\* The runs explored: step lists of up to MaxSteps plain steps, and one-step
\* lists whose step is any descriptor with up to MaxCmds commands.
Init == InitWith(MaxSteps, ShortShapes) \/ InitWith(1, StepShapes)

(* ------------------------------- main ----------------------------------- *)

\* for i, step in enumerate(STEPS, start=1): print the starting line and
\* call _run_step.
StartStep ==
    /\ pc = "loop"
    /\ i < total
    /\ i' = i + 1
    /\ trace' = Append(trace, Ev("starting", i + 1, 0))
    /\ pc' = "skip_if"
    /\ c' = 0
    /\ UNCHANGED << STEPS, results, r, ok, err, cmd_call, summaries, exit_status >>

\* Faulty variant: a non-empty commands list wins over the action
DispatchCommandsFirst ==
    IF step.commands # << >> THEN "commands" ELSE IF step.run THEN "run" ELSE "commands"

\* Where _run_step goes once the skip check has not returned.
Dispatch == IF step.run THEN "run" ELSE "commands"

\* An exception that nothing catches: traceback, exit status 1.
Uncaught ==
    /\ pc' = "crashed"
    /\ exit_status' = 1
    /\ UNCHANGED << STEPS, i, results, r, c, ok, err, cmd_call, summaries >>

\* Faulty variant: the condition negated
SkipTakenNegated(v) == v = "false"

\* if step["skip_if"]():  the branch taken for the value the predicate returned
SkipTaken(v) == v = "true"

\* _run_step: if step.get("skip_if"): if step["skip_if"](): return skipped
SkipCheck ==
    /\ pc = "skip_if"
    /\ IF step.skip_if
       THEN \E outcome \in {"true", "false", "raise"} :
              /\ trace' = Append(trace, Call("skip_if", i, 0, outcome, NoExc))
              /\ IF outcome = "raise"
                 THEN Uncaught
                 ELSE IF SkipTaken(outcome)
                 THEN /\ r' = Result(step.name, i, total, "skipped", SkippedMessage, FALSE)
                      /\ pc' = "append"
                      /\ UNCHANGED << STEPS, i, results, c, ok, err, cmd_call, summaries, exit_status >>
                 ELSE /\ pc' = Dispatch
                      /\ c' = 1
                      /\ UNCHANGED << STEPS, i, results, r, ok, err, cmd_call, summaries, exit_status >>
       ELSE /\ pc' = Dispatch
            /\ c' = 1
            /\ UNCHANGED << STEPS, i, results, r, ok, err, cmd_call, trace, summaries, exit_status >>

\* Faulty variant: the value returned by the action ignored
ActionStatusAlwaysOk(ret) == "ok"

\* status="ok" if ok else "failed"
ActionStatus(ret) == IF ret THEN "ok" ELSE "failed"

\* _run_step: if "run" in step: try: ok = fn() ... except Exception as e: ...
RunAction ==
    /\ pc = "run"
    /\ \/ \E ret \in BOOLEAN :
            /\ trace' = Append(trace, Call("run", i, 0, IF ret THEN "true" ELSE "false", NoExc))
            /\ r' = Result(step.name, i, total,
                           ActionStatus(ret),
                           IF ret THEN EmptyText ELSE RunFalseMessage,
                           step.optional)
       \/ \E e \in Exceptions :
            /\ trace' = Append(trace, Call("run", i, 0, "raise", e))
            /\ r' = Result(step.name, i, total, "failed", str(e), step.optional)
    /\ pc' = "append"
    /\ UNCHANGED << STEPS, i, results, c, ok, err, cmd_call, summaries, exit_status >>

\* Faulty variant: the flag passed on as it is
CaptureNotNegated(show_output) == show_output

\* capture=not show_output
Capture(show_output) == ~show_output

\* Faulty variant: the command echoed after it ran
CmdEventsEchoLast(s, k, outcome) == << Call("exec", s, k, outcome, NoExc), Ev("echo", s, k) >>

\* print(f"    $ {cmd}") and then _run_cmd(cmd, ...): the echo line of
\* command k of step s, then its execution with the given outcome.
CmdEvents(s, k, outcome) == << Ev("echo", s, k), Call("exec", s, k, outcome, NoExc) >>

\* Faulty variant: the exit status of the command ignored
CmdFailedIgnored(success) == FALSE

\* if not ok:  whether the command loop returns a failed Result
CmdFailed(success) == ~success

\* _run_step: one iteration of  for cmd in commands: echo, _run_cmd, and
\* the return of a failed Result when the command did not succeed.
RunCommand ==
    /\ pc = "commands"
    /\ c <= Len(step.commands)
    /\ \/ \E rc \in ReturnCodes, stderr \in StderrTexts, stdout \in StdoutTexts :
            LET res == run_cmd(rc, stderr, stdout, Capture(step.show_output))
            IN  /\ trace' = trace \o CmdEvents(i, step.commands[c], IF rc = 0 THEN "0" ELSE "1")
                /\ cmd_call' = CmdCall(rc, stderr, stdout, Capture(step.show_output), res)
                /\ ok' = res[1]
                /\ err' = res[2]
                /\ IF CmdFailed(res[1])
                   THEN /\ r' = Result(step.name, i, total, "failed",
                                       OrText(res[2], ExitCodeMessage), step.optional)
                        /\ pc' = "append"
                        /\ c' = c
                   ELSE /\ c' = c + 1
                        /\ UNCHANGED << pc, r >>
                /\ UNCHANGED << STEPS, i, results, summaries, exit_status >>
       \/ \* subprocess.run itself raises (OSError, UnicodeDecodeError, ...)
          /\ trace' = trace \o CmdEvents(i, step.commands[c], "raise")
          /\ Uncaught

\* Faulty variant: a step that ran no command is reported as failed
CommandsDoneFailsOnEmpty ==
    /\ pc = "commands"
    /\ c > Len(step.commands)
    /\ r' = IF step.commands = << >>
            THEN Result(step.name, i, total, "failed", ExitCodeMessage, step.optional)
            ELSE Result(step.name, i, total, "ok", EmptyText, step.optional)
    /\ pc' = "append"
    /\ UNCHANGED << STEPS, i, results, c, ok, err, cmd_call, trace, summaries, exit_status >>

\* _run_step: the loop over commands is exhausted: return ok.
CommandsDone ==
    /\ pc = "commands"
    /\ c > Len(step.commands)
    /\ r' = Result(step.name, i, total, "ok", EmptyText, step.optional)
    /\ pc' = "append"
    /\ UNCHANGED << STEPS, i, results, c, ok, err, cmd_call, trace, summaries, exit_status >>

\* main: results.append(r); _print_result(r).  The frame of _run_step that
\* returned r is gone: its locals are unset again.
AppendResult ==
    /\ pc = "append"
    /\ results' = Append(results, r)
    /\ trace' = Append(trace, Ev("result", i, 0))
    /\ pc' = "check"
    /\ c' = 0
    /\ ok' = TRUE
    /\ err' = EmptyText
    /\ cmd_call' = NoCall
    /\ UNCHANGED << STEPS, i, r, summaries, exit_status >>

\* Faulty variant: the run never aborts
AbortConditionNever(x) == FALSE

\* Faulty variant: the optional flag read the wrong way round
AbortConditionOptionalInverted(x) == x.status = "failed" /\ x.optional

\* Faulty variant: the optional flag not consulted
AbortConditionAnyFailure(x) == x.status = "failed"

\* main: if r.status == "failed" and not r.optional
AbortCondition(x) == x.status = "failed" /\ ~x.optional

\* main: abort notice, _print_summary(results, total), sys.exit(1)
Abort ==
    /\ pc = "check"
    /\ AbortCondition(r)
    /\ trace' = trace \o << Ev("abort", 0, 0), Ev("summary", 0, 0) >>
    /\ summaries' = Append(summaries, print_summary(results, total))
    /\ exit_status' = 1
    /\ pc' = "aborted"
    /\ UNCHANGED << STEPS, i, results, r, c, ok, err, cmd_call >>

\* Faulty variant: a failed optional step is tried again
ContinueRetriesFailed ==
    /\ pc = "check"
    /\ ~AbortCondition(r)
    /\ pc' = "loop"
    /\ i' = IF r.status = "failed" THEN i - 1 ELSE i
    /\ UNCHANGED << STEPS, results, r, c, ok, err, cmd_call, trace, summaries, exit_status >>

\* main: the step did not abort the run; back to the loop head.
Continue ==
    /\ pc = "check"
    /\ ~AbortCondition(r)
    /\ pc' = "loop"
    /\ UNCHANGED << STEPS, i, results, r, c, ok, err, cmd_call, trace, summaries, exit_status >>

\* Faulty variant: the loop stops one step short
LoopExhaustedOneShort(index, tot) == index >= tot - 1

\* The for loop of main has no step left.
LoopExhausted(index, tot) == index >= tot

\* main: the loop is exhausted: _print_summary, the "Done" notice, exit 0.
Finish ==
    /\ pc = "loop"
    /\ LoopExhausted(i, total)
    /\ trace' = trace \o << Ev("summary", 0, 0), Ev("done", 0, 0) >>
    /\ summaries' = Append(summaries, print_summary(results, total))
    /\ exit_status' = 0
    /\ pc' = "completed"
    /\ UNCHANGED << STEPS, i, results, r, c, ok, err, cmd_call >>

Next ==
    \/ StartStep
    \/ SkipCheck
    \/ RunAction
    \/ RunCommand
    \/ CommandsDone
    \/ AppendResult
    \/ Abort
    \/ Continue
    \/ Finish

Spec == Init /\ [][Next]_vars

\* The single thread of main keeps running as long as it has a next
\* statement: every predicate, action and command it calls comes back.
FairSpec == Spec /\ WF_vars(Next)

TypeOK ==
    /\ pc \in {"loop", "skip_if", "run", "commands", "append", "check",
               "completed", "aborted", "crashed"}
    /\ i \in 0..total
    /\ Len(results) <= total

(* ======================================================================= *)
(* Properties                                                               *)
(* ======================================================================= *)

Terminal == pc \in {"completed", "aborted", "crashed"}

\* The j-th step failed: its recorded result has status "failed".
FailedAt(j) == j \in 1..Len(results) /\ results[j].status = "failed"

RequiredFailureAt(j) == FailedAt(j) /\ ~STEPS[j].optional

OptionalFailureAt(j) == FailedAt(j) /\ STEPS[j].optional

\* Something of step j was printed or called.
Touched(j) == \E k \in 1..Len(trace) : trace[k].step = j

(* ----------------------------------------------------------------------- *)
\* C1  Abort on required failure: once the recorded result of a required
\* step is "failed", no later step is started (nothing of a later step is
\* printed or called), that result is the last of the result list, main is
\* at its abort check (where it can only abort) or has aborted, and the exit
\* status of the aborted run is 1.
C1_AbortOnRequiredFailure ==
    \A j \in 1..Len(results) :
        RequiredFailureAt(j) =>
            /\ j = Len(results)
            /\ i = j
            /\ \A n \in (j + 1)..total : ~Touched(n)
            /\ pc \in {"check", "aborted"}
            /\ pc = "check" => (ENABLED Abort /\ ~ENABLED Continue)
            /\ pc = "aborted" => exit_status = 1
            /\ exit_status \in {NotExited, 1}

\* A required step failed after an ok step and before a step that never runs.
C1_Witness ==
    /\ pc = "aborted"
    /\ exit_status = 1
    /\ Len(results) = 2
    /\ total > 2
    /\ results[1].status = "ok"
    /\ RequiredFailureAt(2)

(* ----------------------------------------------------------------------- *)
\* C2 as stated: the failure of an optional step is recorded as "failed"
\* with optional = TRUE, main does not abort on it, every remaining step is
\* processed (the run that has ended has a result for every step), and the
\* summary counts it under failed-optional and not under failed-required.
C2_Original ==
    \A j \in 1..Len(results) :
        OptionalFailureAt(j) =>
            /\ results[j].optional = TRUE
            /\ ~(pc = "aborted" /\ i = j)
            /\ pc \in {"completed", "aborted"} => Len(results) = total
            /\ \A k \in 1..Len(summaries) :
                 /\ summaries[k].failed_optional >= 1
                 /\ summaries[k].failed_required =
                        Cardinality({ n \in 1..Len(results) : RequiredFailureAt(n) })

\* C2  Optional failure continues (amended): the failure of an optional step
\* is recorded as "failed" with optional = TRUE and never ends the run: main
\* does not abort on it, goes back to the loop head, and from there starts
\* the next step, or completes with exit status 0 if it was the last one.
\* Every summary counts it under failed-optional, not under failed-required.
C2_OptionalFailureContinues ==
    \A j \in 1..Len(results) :
        OptionalFailureAt(j) =>
            /\ results[j].optional = TRUE
            /\ i = j => /\ pc \in {"check", "loop", "completed"}
                        /\ pc = "completed" => (j = total /\ exit_status = 0)
                        /\ (pc = "loop" /\ j < total) => ENABLED StartStep
            /\ i > j => Touched(j + 1)
            /\ \A k \in 1..Len(summaries) :
                 /\ summaries[k].failed_optional =
                        Cardinality({ n \in 1..Len(results) : OptionalFailureAt(n) })
                 /\ summaries[k].failed_required =
                        Cardinality({ n \in 1..Len(results) : RequiredFailureAt(n) })

\* [A(ok), B(fails, optional), C(ok)]: three results, failedOptional = 1.
C2_Witness ==
    /\ pc = "completed"
    /\ exit_status = 0
    /\ Len(results) = 3
    /\ results[1].status = "ok"
    /\ OptionalFailureAt(2)
    /\ results[3].status = "ok"
    /\ summaries[1].failed_optional = 1
    /\ summaries[1].failed_required = 0

(* ----------------------------------------------------------------------- *)
\* C3  Ordering: a run that has ended and in which no step failed (no
\* recorded failure, no step that raised) has exactly one result per step,
\* the k-th result being that of the k-th step, every status "ok" or
\* "skipped"; it ended completed, with exit status 0.
C3_Ordering ==
    (Terminal /\ pc # "crashed" /\ \A j \in 1..Len(results) : ~FailedAt(j)) =>
        /\ pc = "completed"
        /\ exit_status = 0
        /\ Len(results) = total
        /\ \A k \in 1..Len(results) :
             /\ results[k].step_name = STEPS[k].name
             /\ results[k].step_index = k
             /\ results[k].status \in {"ok", "skipped"}

\* A completed run of at least two steps, one skipped and one performed.
C3_Witness ==
    /\ pc = "completed"
    /\ total >= 2
    /\ Len(results) = total
    /\ \A j \in 1..Len(results) : ~FailedAt(j)
    /\ \E j \in 1..Len(results) : results[j].status = "skipped"
    /\ \E j \in 1..Len(results) : results[j].status = "ok"

RECURSIVE EventsOf(_, _)
EventsOf(t, j) ==
    IF t = << >> THEN << >>
    ELSE IF Head(t).step = j THEN << Head(t) >> \o EventsOf(Tail(t), j)
    ELSE EventsOf(Tail(t), j)

\* The result _run_step returned for step j, once it has returned one.
Returned(j) == (j <= Len(results)) \/ (i = j /\ pc = "append")

ResultOf(j) == IF j <= Len(results) THEN results[j] ELSE r

\* C5  Skip precedence: when the skip_if predicate of a step is present and
\* returns true, it was the first thing of the step that _run_step did
\* (right after main's starting line), no command of the step was echoed or
\* executed and its action was not called, and _run_step returned a result
\* with status "skipped" and message "condition matched".
C5_SkipPrecedence ==
    \A k \in 1..Len(trace) :
        (trace[k].ev = "skip_if" /\ trace[k].out = "true") =>
            LET j == trace[k].step
            IN  /\ STEPS[j].skip_if
                /\ k > 1
                /\ trace[k - 1].ev = "starting"
                /\ trace[k - 1].step = j
                /\ \A m \in 1..Len(trace) :
                     trace[m].step = j => trace[m].ev \notin {"echo", "exec", "run"}
                /\ Returned(j)
                /\ ResultOf(j).status = "skipped"
                /\ ResultOf(j).message = <<"condition", " ", "matched">>

\* A skipped step that carries both an action and commands.
C5_Witness ==
    /\ Len(results) = 1
    /\ results[1].status = "skipped"
    /\ STEPS[1].skip_if
    /\ STEPS[1].run
    /\ Len(STEPS[1].commands) = 2
    /\ pc = "completed"

(* ----------------------------------------------------------------------- *)
\* The commands of step j executed so far, in order of execution.
ExecsOf(j) == SelectSeq(EventsOf(trace, j), LAMBDA e : e.ev = "exec")

\* C6  Partial command failure: the commands of a step run in list order,
\* each only after all earlier ones exited zero; after the first command
\* that exits non-zero no further command of the step runs, and _run_step
\* returns "failed" with the diagnostic text of that command as message
\* (the text "exit code non-zero" if it has none).
C6_PartialCommandFailure ==
    \A j \in 1..i :
        LET x == ExecsOf(j)
        IN  /\ Len(x) <= Len(STEPS[j].commands)
            /\ \A n \in 1..Len(x) :
                 /\ x[n].cmd = STEPS[j].commands[n]
                 /\ n < Len(x) => x[n].out = "0"
            /\ (Len(x) > 0 /\ x[Len(x)].out = "1") =>
                 /\ Returned(j)
                 /\ ResultOf(j).status = "failed"
                 /\ (i = j /\ pc = "append") =>
                      /\ ok = FALSE
                      /\ c = Len(x)
                      /\ err # << >> => r.message = err
                      /\ err = << >> => r.message = <<"exit", " ", "code", " ", "non-zero">>

\* [cmd1(ok), cmd2(fails), ...]: the second of the commands failed and the
\* step returned failed, with the text the command wrote to stderr.
C6_Witness ==
    /\ pc = "append"
    /\ i = 1
    /\ Len(STEPS[1].commands) >= 2
    /\ Len(ExecsOf(1)) = 2
    /\ ExecsOf(1)[1].out = "0"
    /\ ExecsOf(1)[2].out = "1"
    /\ r.status = "failed"
    /\ r.message = <<"E">>

(* ----------------------------------------------------------------------- *)
\* C7  Summary arithmetic: every recorded result has status "ok", "skipped"
\* or "failed"; for every call of _print_summary, ok + skipped + failed is
\* the number of results passed and failed = failedOptional + failedRequired.
C7_SummaryArithmetic ==
    /\ \A j \in 1..Len(results) : results[j].status \in {"ok", "skipped", "failed"}
    /\ \A k \in 1..Len(summaries) :
         LET s == summaries[k]
         IN  /\ s.ok + s.skipped + s.failed = Len(s.results)
             /\ s.failed = s.failed_optional + s.failed_required
             /\ s.ok >= 0 /\ s.skipped >= 0
             /\ s.failed_optional >= 0 /\ s.failed_required >= 0

\* A summary over one ok, one skipped and one failed result.
C7_Witness ==
    /\ Len(summaries) = 1
    /\ summaries[1].ok = 1
    /\ summaries[1].skipped = 1
    /\ summaries[1].failed = 1
    /\ Len(summaries[1].results) = 3

(* ----------------------------------------------------------------------- *)
\* C8  Summary Reporter (as stated): no summary before the run has ended;
\* in every run that has ended _print_summary has been called exactly once,
\* with exactly the results recorded.
C8_SummaryOnce ==
    /\ ~Terminal => Len(summaries) = 0
    /\ Terminal => (Len(summaries) = 1 /\ summaries[1].results = results)

(* ----------------------------------------------------------------------- *)
\* C9  Failures become results (as stated): whatever fails in a step (its
\* skip_if predicate, its action, a command or its launch), _run_step
\* returns a Result, so that a run that has ended has a recorded result for
\* every step it started and has printed a summary.
C9_FailuresBecomeResults ==
    /\ \A j \in 1..i : (i > j \/ Terminal) => j <= Len(results)
    /\ Terminal => Len(summaries) = 1

C11_OptionalCopied ==
    /\ \A j \in 1..Len(results) : results[j].optional = STEPS[j].optional
    /\ pc = "append" => r.optional = STEPS[i].optional

(* ----------------------------------------------------------------------- *)
\* t is s without its leading and trailing whitespace.
IsStripped(s, t) ==
    \E a \in 0..Len(s) :
        /\ a + Len(t) <= Len(s)
        /\ t = SubSeq(s, a + 1, a + Len(t))
        /\ \A k \in 1..a : s[k] \in {" ", "\n"}
        /\ \A k \in (a + Len(t) + 1)..Len(s) : s[k] \in {" ", "\n"}
        /\ t # << >> => (t[1] \notin {" ", "\n"} /\ t[Len(t)] \notin {" ", "\n"})

\* The contiguous parts of s, the empty one included.
PartsOf(s) == { SubSeq(s, a, b) : a \in 1..(Len(s) + 1), b \in 0..Len(s) }

C13_ActionPrecedence ==
    \A j \in 1..i :
        STEPS[j].run =>
            /\ \A k \in 1..Len(trace) :
                 trace[k].step = j => trace[k].ev \notin {"echo", "exec"}
            /\ i = j => ~cmd_call.called
            /\ Cardinality({ k \in 1..Len(trace) :
                               trace[k].step = j /\ trace[k].ev = "run" }) <= 1
            /\ (Returned(j) /\ ResultOf(j).status # "skipped") =>
                 \E k \in 1..Len(trace) :
                     /\ trace[k].step = j
                     /\ trace[k].ev = "run"
                     /\ ResultOf(j).status = (IF trace[k].out = "true" THEN "ok" ELSE "failed")
                     /\ trace[k].out = "true" => ResultOf(j).message = << >>
                     /\ trace[k].out = "false" =>
                          ResultOf(j).message = <<"run()", " ", "returned", " ", "False">>

\* A step with an action and two commands: the action ran, no command did.
C13_Witness ==
    /\ pc = "completed"
    /\ total = 1
    /\ STEPS[1].run
    /\ Len(STEPS[1].commands) = 2
    /\ results[1].status = "ok"
    /\ \E k \in 1..Len(trace) : trace[k].ev = "run"
    /\ \A k \in 1..Len(trace) : trace[k].ev # "exec"

(* ----------------------------------------------------------------------- *)
\* The step j runs its commands list (it carries no action).
CommandStep(j) == ~STEPS[j].run

\* C14  Failure message of a command step: _run_cmd is called with capture
\* = not show_output and returns an empty text when it does not capture;
\* the message of a failed command step is the text _run_cmd returned, or
\* "exit code non-zero" when that is empty, hence always "exit code
\* non-zero" for a step with show_output; the message of an "ok" command
\* step is empty.
C14_CommandFailureMessage ==
    /\ cmd_call.called =>
         /\ CommandStep(i)
         /\ cmd_call.capture = ~STEPS[i].show_output
         /\ ~cmd_call.capture => cmd_call.text = << >>
    /\ (pc = "append" /\ CommandStep(i) /\ r.status = "failed") =>
         /\ cmd_call.called
         /\ cmd_call.rc # 0
         /\ cmd_call.text # << >> => r.message = cmd_call.text
         /\ cmd_call.text = << >> => r.message = <<"exit", " ", "code", " ", "non-zero">>
    /\ \A j \in 1..i :
         (CommandStep(j) /\ Returned(j)) =>
             /\ (ResultOf(j).status = "failed" /\ STEPS[j].show_output) =>
                  ResultOf(j).message = <<"exit", " ", "code", " ", "non-zero">>
             /\ ResultOf(j).status = "failed" => ResultOf(j).message # << >>
             /\ ResultOf(j).status = "ok" => ResultOf(j).message = << >>

\* A show_output step whose command failed with text on stderr: the message
\* is the fixed text.
C14_Witness ==
    /\ pc = "append"
    /\ STEPS[i].show_output
    /\ cmd_call.called
    /\ cmd_call.rc = 1
    /\ cmd_call.stderr = <<"E">>
    /\ r.status = "failed"
    /\ r.message = <<"exit", " ", "code", " ", "non-zero">>

(* ----------------------------------------------------------------------- *)
\* C15  Return value of the action: if the action returned true the result
\* is "ok" with an empty message; if it returned false the result is
\* "failed" with message "run() returned False", and for a required step
\* main aborts on it: no later step starts and main can only abort.
C15_ActionReturnValue ==
    \A k \in 1..Len(trace) :
        (trace[k].ev = "run" /\ trace[k].out \in {"true", "false"}) =>
            LET j == trace[k].step
            IN  /\ Returned(j)
                /\ trace[k].out = "true" =>
                     /\ ResultOf(j).status = "ok"
                     /\ ResultOf(j).message = << >>
                /\ trace[k].out = "false" =>
                     /\ ResultOf(j).status = "failed"
                     /\ ResultOf(j).message = <<"run()", " ", "returned", " ", "False">>
                     /\ ~STEPS[j].optional =>
                          /\ i = j
                          /\ pc \in {"append", "check", "aborted"}
                          /\ pc = "check" => (ENABLED Abort /\ ~ENABLED Continue)
                          /\ pc = "aborted" => exit_status = 1

\* The action of a required step returned false before the last step: the
\* run aborted there.
C15_Witness ==
    /\ pc = "aborted"
    /\ exit_status = 1
    /\ Len(results) < total
    /\ trace[Len(trace) - 3].ev = "run"
    /\ trace[Len(trace) - 3].out = "false"
    /\ results[Len(results)].message = <<"run()", " ", "returned", " ", "False">>

(* ----------------------------------------------------------------------- *)
\* The events of trace that belong to the run of step j inside _run_step.
InStep(e) == e.ev \in {"skip_if", "run", "echo", "exec"}

\* C16  Output event ordering: everything of a step comes after its
\* starting line; the echo line of a command comes right before its
\* execution; the result line of step j comes after everything else of
\* step j and before everything of the later steps; the abort notice comes
\* right before the summary; the summary comes after every result line.
C16_OutputOrdering ==
    \A k \in 1..Len(trace) :
        LET e == trace[k]
        IN  /\ (InStep(e) \/ e.ev = "result") =>
                 \E m \in 1..(k - 1) : trace[m].ev = "starting" /\ trace[m].step = e.step
            /\ e.ev = "exec" =>
                 /\ k > 1
                 /\ trace[k - 1].ev = "echo"
                 /\ trace[k - 1].step = e.step
                 /\ trace[k - 1].cmd = e.cmd
            /\ e.ev = "echo" =>
                 /\ k < Len(trace)
                 /\ trace[k + 1].ev = "exec"
            /\ e.ev = "result" =>
                 \A m \in 1..Len(trace) :
                     /\ (trace[m].step = e.step /\ m # k) => m < k
                     /\ trace[m].step > e.step => m > k
            /\ e.ev = "abort" =>
                 /\ k < Len(trace)
                 /\ trace[k + 1].ev = "summary"
            /\ e.ev = "summary" =>
                 /\ \A m \in 1..Len(trace) : trace[m].ev = "result" => m < k
                 /\ Cardinality({ m \in 1..Len(trace) : trace[m].ev = "result" }) = Len(results)

\* An aborted run of two steps in which commands were echoed and executed.
C16_Witness ==
    /\ pc = "aborted"
    /\ Len(results) = 2
    /\ \E k \in 1..Len(trace) : trace[k].ev = "exec" /\ trace[k].step = 1
    /\ \E k \in 1..Len(trace) : trace[k].ev = "exec" /\ trace[k].step = 2
    /\ trace[Len(trace) - 1].ev = "abort"
    /\ trace[Len(trace)].ev = "summary"

(* ----------------------------------------------------------------------- *)
\* One step of a linear run: the index stays or goes up by one, and it goes
\* up only when the results of all earlier steps are recorded; results are
\* recorded one at a time, for the step of the index; a run that has ended
\* stays as it is.
Linear ==
    /\ i' \in {i, i + 1}
    /\ i' = i + 1 => (Len(results) = i /\ pc = "loop" /\ pc' = "skip_if")
    /\ Len(results') \in {Len(results), Len(results) + 1}
    /\ Len(results') = Len(results) + 1 => (Len(results') = i /\ i' = i)
    /\ Len(results') \in {i' - 1, i'} \/ i' = 0
    /\ Terminal => UNCHANGED vars

\* C17  Linear state machine and termination: every step of a run is
\* linear (no retry, no backward transition, no step started before the
\* result of the previous one is recorded), and a run in which every
\* predicate, action and command returns (none of them raises out of
\* _run_step) eventually ends, completed or aborted.
C17_LinearAndTerminates ==
    /\ [][Linear]_vars
    /\ ([](pc # "crashed")) => <>(pc \in {"completed", "aborted"})

\* A run of three steps that has ended completed.
C17_Witness ==
    /\ pc = "completed"
    /\ i = 3
    /\ Len(results) = 3

(* ----------------------------------------------------------------------- *)
\* The result list is the image of a prefix of the step list.
PrefixImage ==
    /\ Len(results) <= total
    /\ \A j \in 1..Len(results) :
         /\ results[j].step_index = j
         /\ results[j].step_name = STEPS[j].name
         /\ results[j].total = Len(STEPS)

\* The result list only grows, by one result at its end.
AppendOnly ==
    /\ Len(results') \in {Len(results), Len(results) + 1}
    /\ SubSeq(results', 1, Len(results)) = results
    /\ STEPS' = STEPS

\* C18  In every state of a run, aborted runs included, the result list has
\* length k <= N and its j-th result has step_index = j, the name of the
\* j-th step and total = N, the length of the whole step list; the list is
\* append-only.
C18_ResultsPrefix == [](PrefixImage) /\ [][AppendOnly]_vars

\* A run aborted at the second of three steps: both results carry total 3.
C18_Witness ==
    /\ pc = "aborted"
    /\ total = 3
    /\ Len(results) = 2
    /\ results[1].total = 3
    /\ results[2].total = 3
    /\ results[2].step_index = 2

(* ----------------------------------------------------------------------- *)
\* C19  The failed-required count of every summary is 0 or 1, and 1 exactly
\* in an aborted run, whose last result is then the one required failure;
\* no failed result with optional = FALSE is followed by another result;
\* the "Failed (required)" line is printed exactly when the count is above
\* zero, hence only in aborted runs.
C19_FailedRequired ==
    /\ \A j \in 1..Len(results) :
         (results[j].status = "failed" /\ results[j].optional = FALSE) => j = Len(results)
    /\ \A k \in 1..Len(summaries) :
         LET s == summaries[k]
         IN  /\ s.failed_required \in {0, 1}
             /\ s.failed_required = 1 <=> pc = "aborted"
             /\ s.required_line <=> s.failed_required > 0
             /\ s.required_line => pc = "aborted"
    /\ pc = "aborted" =>
         /\ Len(summaries) = 1
         /\ Len(results) >= 1
         /\ results[Len(results)].status = "failed"
         /\ results[Len(results)].optional = FALSE

\* An aborted run with an optional failure before the required one.
C19_Witness ==
    /\ pc = "aborted"
    /\ Len(summaries) = 1
    /\ summaries[1].failed_required = 1
    /\ summaries[1].failed_optional = 1
    /\ summaries[1].required_line

(* ----------------------------------------------------------------------- *)
\* The step j has no action and no command, and its skip predicate is
\* absent or has returned false.
EmptyStepRun(j) ==
    /\ ~STEPS[j].run
    /\ STEPS[j].commands = << >>
    /\ \/ ~STEPS[j].skip_if
       \/ \E k \in 1..Len(trace) :
            trace[k].ev = "skip_if" /\ trace[k].step = j /\ trace[k].out = "false"

\* C20  A step without action and without commands that is not skipped
\* executes nothing, returns "ok" with an empty message, does not end the
\* run (main neither aborts nor stops on it), and is counted as a performed
\* step by the summary.
C20_EmptyStep ==
    \A j \in 1..i :
        EmptyStepRun(j) =>
            /\ \A k \in 1..Len(trace) :
                 trace[k].step = j => trace[k].ev \notin {"echo", "exec", "run"}
            /\ i = j => ~cmd_call.called
            /\ Returned(j) \/ (i = j /\ pc \in {"skip_if", "commands"})
            /\ Returned(j) =>
                 /\ ResultOf(j).status = "ok"
                 /\ ResultOf(j).message = << >>
            /\ i = j => pc \notin {"aborted", "crashed"}
            /\ (i = j /\ pc = "check") => (ENABLED Continue /\ ~ENABLED Abort)
            /\ \A k \in 1..Len(summaries) :
                 /\ summaries[k].ok >= 1
                 /\ summaries[k].ok =
                        Cardinality({ n \in 1..Len(results) : results[n].status = "ok" })

\* A one-step list whose step has nothing to run and whose skip predicate
\* returned false: completed, one step performed.
C20_Witness ==
    /\ pc = "completed"
    /\ exit_status = 0
    /\ total = 1
    /\ EmptyStepRun(1)
    /\ STEPS[1].skip_if
    /\ results[1].status = "ok"
    /\ summaries[1].ok = 1

====
